---- MODULE Spec2Model ----
(***************************************************************************)
(* State-machine model of the AutocompleteTextbox component of             *)
(* react-ghost-text (src/src/AutocompleteTextbox.tsx, first component in   *)
(* the file, together with the helpers of utils.tsx).                      *)
(*                                                                         *)
(* The editable surface is one line of the contenteditable div: a sequence *)
(* of items, each either one committed character or one suggestion span    *)
(* (an element carrying data-suggestionid).  A character of kind "t" is the *)
(* first of a text node that follows another node; one of kind "c"         *)
(* continues the text node of the character before it (or starts the       *)
(* surface).  The selection is a collapsed                                 *)
(* caret between two items, or a range.  Strings are sequences of          *)
(* one-character strings; the empty sequence is the (falsy) empty string,  *)
(* which also stands for undefined and null where the code only tests      *)
(* truthiness.                                                             *)
(***************************************************************************)
EXTENDS Integers, Sequences, FiniteSets, TLC

\* ---------------------------------------------------------------- bounds
MaxLen == 2       \* committed characters in the surface
MaxPending == 1   \* calls of the getSuggestion prop in flight at once
MaxLatency == 1   \* largest difference of the two Date.now() readings
MaxLines == 3     \* lines of text before the caret, for getTextUptilCaretInElement

\* ------------------------------------------------------ program constants
CacheMax == 25    \* new LRUCache({ max: 25 })

\* ----------------------------------------------------------------- inputs
TypedData == {<<"a">>, <<"a", "a">>}  \* InputEvent.data of an insertion
Results == {<<>>, <<"a", "a">>}       \* what getSuggestion may resolve with
SelKinds == {"caret", "range"}      \* window.getSelection(): collapsed or not

IMPLICIT == "implicit"
EXPLICIT == "pressed_escape"
SYSTEM == "internal_reason"

VARIABLES
  doc,                   \* child nodes of textbox.current, in document order
  caret,                 \* number of items before the caret
  sel,                   \* kind of the current selection
  disableAutocomplete,   \* the prop of the latest render
  timer,                 \* TRUE while the timeout of timer.current is armed
  disableSelectionEvent, \* disableSelectionEvent.current
  movedWhileArmed,       \* history: the selection changed after the armed timeout was set
  abortController,       \* abortController.current: [aborted]
  pending,               \* awaited calls of the getSuggestion prop, oldest first:
                         \* [key, aborted, current] and, as history of the call,
                         \* caretMoved and superseded
  microtask,             \* the queued continuation of handleInput's own call
  suggestionCache,       \* suggestionCache.current, most recently used first
  out,                   \* the last step: the event handled, then the
                         \* callbacks and provider calls it issued, in order
  callsAllowed,          \* how many calls the provider is left with unanswered at once
  content,               \* a multi-line surface up to the caret: [layout, bold, lines]
  extracted              \* <<what getTextUptilCaretInElement returned for content>>

vars == <<doc, caret, sel, disableAutocomplete, timer, disableSelectionEvent, movedWhileArmed,
          abortController, pending, microtask, suggestionCache, out, callsAllowed,
          content, extracted>>

\* ------------------------------------------------------------ the surface
Item(k, id, text) == [k |-> k, id |-> id, text |-> text]
CharItem(ch) == Item("c", 0, <<ch>>)
SuggestionItem(id, text) == Item("m", id, text)
IsMarker(it) == it.k = "m"
IsChar(it) == it.k \in {"c", "t"}
AsNodeStart(it) == IF IsChar(it) THEN [it EXCEPT !.k = "t"] ELSE it
AsInterior(it) == IF IsChar(it) THEN [it EXCEPT !.k = "c"] ELSE it
\* The first character of the surface is "c"; one after a span starts a node.
Canon(d) ==
  [i \in 1..Len(d) |->
     IF i = 1 THEN AsInterior(d[i])
     ELSE IF IsMarker(d[i - 1]) THEN AsNodeStart(d[i]) ELSE d[i]]
\* The nodes seq with the first one starting, or continuing, a text node
StartingNode(seq) == IF seq = <<>> THEN seq ELSE <<AsNodeStart(Head(seq))>> \o Tail(seq)
ContinuingNode(seq) == IF seq = <<>> THEN seq ELSE <<AsInterior(Head(seq))>> \o Tail(seq)

RemoveAt(seq, i) == SubSeq(seq, 1, i - 1) \o SubSeq(seq, i + 1, Len(seq))

NbspToSpace(ch) == IF ch = "nbsp" THEN " " ELSE ch

RECURSIVE TextOf(_)
TextOf(items) ==
  IF items = <<>> THEN <<>>
  ELSE [i \in 1..Len(Head(items).text) |-> NbspToSpace(Head(items).text[i])]
         \o TextOf(Tail(items))

CharCount(d) == Len(SelectSeq(d, IsChar))

\* querySelectorAll(`[data-suggestionid]`), in document order
SuggestionElements(d) == SelectSeq(d, IsMarker)
isSuggestionDisplayed(d) == Len(SuggestionElements(d)) > 0
getCurrentSuggestionElement(d) == SuggestionElements(d)[1]

StartsWith(text, prefix) ==
  Len(prefix) <= Len(text) /\ SubSeq(text, 1, Len(prefix)) = prefix
Substring(text, n) == SubSeq(text, n + 1, Len(text))

\* getCaretAsRange() is null unless the selection is collapsed
getCaretAsRange(s) == s.sel = "caret"

getTextUptilCaretInElement(s) ==
  IF ~getCaretAsRange(s) THEN <<>> ELSE TextOf(SubSeq(s.doc, 1, s.caret))

\* ---- getTextUptilCaretInElement on a surface of several lines
\* The lines before the caret (the last one up to the caret) as the browser
\* lays them out: every line a <div> ("divs"), the first line bare text and
\* the others <div>s ("bareFirst"), or lines separated by <br> ("brs"); an
\* empty line in a <div> holds a <br>.  bold wraps the text of the first
\* line in <b>.
Layouts == {"divs", "bareFirst", "brs"}
LineTexts == {<<>>, <<"a">>, <<"nbsp">>}
NoContent == [layout |-> "brs", bold |-> FALSE, lines |-> <<>>]
LinesUpTo(n) == UNION {[1..k -> LineTexts] : k \in 1..n}
Contents == [layout : Layouts, bold : BOOLEAN, lines : LinesUpTo(MaxLines)]

LineHTML(c, i) ==
  LET line == c.lines[i]
      text == IF c.bold /\ i = 1 /\ line # <<>> THEN <<"<b>">> \o line \o <<"</b>">> ELSE line
      last == i = Len(c.lines)
      inDiv == c.layout = "divs" \/ (c.layout = "bareFirst" /\ i > 1)
  IN IF inDiv
     THEN <<"<div>">> \o (IF line = <<>> /\ ~last THEN <<"<br>">> ELSE text) \o <<"</div>">>
     ELSE text \o (IF c.layout = "brs" /\ ~last THEN <<"<br>">> ELSE <<>>)

\* div.appendChild(range.cloneContents()); div.innerHTML, as tokens
RECURSIVE cloneContentsHTML(_, _)
cloneContentsHTML(c, i) ==
  IF i > Len(c.lines) THEN <<>> ELSE LineHTML(c, i) \o cloneContentsHTML(c, i + 1)

\* replace(/<\/div><div>/g, "\n")
RECURSIVE ReplaceDivBoundaries(_)
ReplaceDivBoundaries(html) ==
  IF Len(html) < 2 THEN html
  ELSE IF html[1] = "</div>" /\ html[2] = "<div>"
  THEN <<"\n">> \o ReplaceDivBoundaries(SubSeq(html, 3, Len(html)))
  ELSE <<html[1]>> \o ReplaceDivBoundaries(Tail(html))

\* replace(/<br>/g, "\n")
ReplaceBr(html) == [i \in 1..Len(html) |-> IF html[i] = "<br>" THEN "\n" ELSE html[i]]

\* innerText of a div that is not rendered: its text content
Tags == {"<div>", "</div>", "<br>", "<b>", "</b>"}
innerText(html) == SelectSeq(html, LAMBDA tok : tok \notin Tags)

\* replace(/\xa0/g, " ")
ReplaceNbsp(text) == [i \in 1..Len(text) |-> NbspToSpace(text[i])]

getTextUptilCaret(c) == ReplaceNbsp(innerText(ReplaceBr(ReplaceDivBoundaries(cloneContentsHTML(c, 1)))))

\* selection.anchorNode and anchorOffset, as far as isCaretAtLineEnd reads
\* them: a text node, with or without text after the offset, or an element.
TextAnchor(textAfter) == [nodeType |-> "text", textAfter |-> textAfter]
TextboxAnchor == [nodeType |-> "element", textAfter |-> FALSE]
\* The anchors a caret after c items of d can have: inside a text node it is
\* that node; between two nodes it is the text node that ends there, the text
\* node that starts there, or the textbox itself.
AnchorsAt(d, c) ==
  IF c > 0 /\ c < Len(d) /\ IsChar(d[c]) /\ d[c + 1].k = "c"
  THEN {TextAnchor(TRUE)}
  ELSE (IF c < Len(d) /\ IsChar(d[c + 1]) THEN {TextAnchor(TRUE)} ELSE {})
         \cup (IF c > 0 /\ IsChar(d[c]) THEN {TextAnchor(FALSE)} ELSE {})
         \cup {TextboxAnchor}

\* On a line of direct children of the textbox: a text node with text after
\* the offset is mid-line; a text node whose parent is the textbox, and any
\* other node, is taken to be at the end of the line.
isCaretAtLineEnd(anchor) ==
  IF anchor.nodeType = "text"
  THEN IF anchor.textAfter THEN FALSE ELSE TRUE
  ELSE TRUE

\* ------------------------------------------------------------- the cache
CacheIndex(c, key) ==
  IF \E i \in 1..Len(c) : c[i].key = key
  THEN CHOOSE i \in 1..Len(c) : c[i].key = key ELSE 0
CacheHas(c, key) == CacheIndex(c, key) # 0
\* A cache whose lookups never hit
CacheGetAlwaysMisses(c, key) == <<>>
\* LRUCache.get: the value (or undefined); a hit becomes most recently used
CacheGet(c, key) == IF CacheHas(c, key) THEN c[CacheIndex(c, key)].val ELSE <<>>
CacheTouch(c, key) ==
  IF CacheHas(c, key)
  THEN <<c[CacheIndex(c, key)]>> \o RemoveAt(c, CacheIndex(c, key)) ELSE c
\* LRUCache.set: insert or overwrite as most recently used, evict the oldest
CacheSet(c, key, val) ==
  LET rest == IF CacheHas(c, key) THEN RemoveAt(c, CacheIndex(c, key)) ELSE c
      all == <<[key |-> key, val |-> val]>> \o rest
  IN IF Len(all) > CacheMax THEN SubSeq(all, 1, CacheMax) ELSE all

\* ------------------------------------------------- callbacks (the log out)
Ev(type, id, text, key, reason, lat, marks) ==
  [type |-> type, id |-> id, text |-> text, key |-> key, reason |-> reason,
   lat |-> lat, marks |-> marks]
ShownEv(id, text, key, lat) == Ev("shown", id, text, key, "", lat, 0)
AcceptedEv(id) == Ev("accepted", id, <<>>, <<>>, "", 0, 0)
RejectedEv(id, reason) == Ev("rejected", id, <<>>, <<>>, reason, 0, 0)
\* onContentChange(innerHTML): the text of the surface and its marker count
ContentEv(s) == Ev("content", 0, TextOf(s.doc), <<>>, "", 0, Len(SuggestionElements(s.doc)))
ProviderEv(key) == Ev("provider", 0, <<>>, key, "", 0, 0)
UnhandledEv == Ev("unhandled", 0, <<>>, <<>>, "", 0, 0)
Emit(s, e) == [s EXCEPT !.out = Append(@, e)]

\* The event a step handles: id and marks are the id of the first suggestion
\* displayed when it arrives and the number displayed.  A surface event
\* carries its data (text), the text of that first suggestion (key) and the
\* key pressed (reason); a settled call carries its result (text), its
\* leading text (key) and its history (reason).
DisplayedText ==
  IF isSuggestionDisplayed(doc) THEN getCurrentSuggestionElement(doc).text ELSE <<>>
Trigger(type, text, key, reason) ==
  Ev(type,
     IF isSuggestionDisplayed(doc) THEN getCurrentSuggestionElement(doc).id ELSE 0,
     text, key, reason, 0, Len(SuggestionElements(doc)))

\* History of the calls in flight: a select event was handled (caretMoved);
\* a debounce cycle was started, Escape was handled, the surface was blurred
\* or disableAutocomplete became true (superseded).
NoteCaretMoved(s) ==
  [s EXCEPT !.pending = [i \in 1..Len(s.pending) |-> [s.pending[i] EXCEPT !.caretMoved = TRUE]]]
NoteSuperseded(s) ==
  [s EXCEPT !.pending = [i \in 1..Len(s.pending) |-> [s.pending[i] EXCEPT !.superseded = TRUE]]]

Cur ==
  [doc |-> doc, caret |-> caret, sel |-> sel,
   disableAutocomplete |-> disableAutocomplete, timer |-> timer,
   disableSelectionEvent |-> disableSelectionEvent,
   movedWhileArmed |-> movedWhileArmed,
   abortController |-> abortController, pending |-> pending,
   microtask |-> microtask, suggestionCache |-> suggestionCache,
   out |-> <<>>]
Begin(trigger) == [Cur EXCEPT !.out = <<trigger>>]

Becomes(s) ==
  /\ doc' = s.doc
  /\ caret' = s.caret
  /\ sel' = s.sel
  /\ disableAutocomplete' = s.disableAutocomplete
  /\ timer' = s.timer
  /\ disableSelectionEvent' = s.disableSelectionEvent
  /\ movedWhileArmed' = s.movedWhileArmed
  /\ abortController' = s.abortController
  /\ pending' = s.pending
  /\ microtask' = s.microtask
  /\ suggestionCache' = s.suggestionCache
  /\ out' = s.out
  /\ UNCHANGED <<callsAllowed, content, extracted>>

\* ------------------------------------------------------------- the engine
\* removeSuggestionIfDisplayed reporting every removal, whatever the reason
removeSuggestionAlwaysReported(s, reason) ==
  LET els == SuggestionElements(s.doc)
      before == Len(SuggestionElements(SubSeq(s.doc, 1, s.caret)))
      rejected == [i \in 1..Len(els) |-> RejectedEv(els[i].id, reason)]
  IN [s EXCEPT !.doc = Canon(SelectSeq(s.doc, IsChar)),
               !.caret = s.caret - before,
               !.out = s.out \o rejected]

removeSuggestionIfDisplayed(s, reason) ==
  LET els == SuggestionElements(s.doc)
      before == Len(SuggestionElements(SubSeq(s.doc, 1, s.caret)))
      rejected == IF reason = SYSTEM THEN <<>>
                  ELSE [i \in 1..Len(els) |-> RejectedEv(els[i].id, reason)]
  IN [s EXCEPT !.doc = Canon(SelectSeq(s.doc, IsChar)),
               !.caret = s.caret - before,
               !.out = s.out \o rejected]

\* insertNodeAtCaret(node, textbox, caretToStart): false without a collapsed
\* selection; otherwise range.insertNode puts the node in at the caret as a
\* node of its own (splitting the text node the caret is in), and the caret
\* ends up before it (caretToStart) or after it.
insertNodeAtCaretOk(s) == getCaretAsRange(s)
insertNodeAtCaret(s, items, caretToStart) ==
  [s EXCEPT !.doc = Canon(SubSeq(s.doc, 1, s.caret) \o StartingNode(items)
                            \o StartingNode(SubSeq(s.doc, s.caret + 1, Len(s.doc)))),
            !.caret = IF caretToStart THEN s.caret ELSE s.caret + Len(items)]

\* The browser inserts typed text at the caret: into the text node before the
\* caret, else into the one after it, else as a new text node.
BrowserInsert(s, data) ==
  LET before == SubSeq(s.doc, 1, s.caret)
      after == SubSeq(s.doc, s.caret + 1, Len(s.doc))
      joinsBefore == before # <<>> /\ IsChar(before[Len(before)])
      typed == [i \in 1..Len(data) |-> CharItem(data[i])]
  IN [s EXCEPT !.doc = Canon(before \o typed
                               \o (IF joinsBefore THEN after ELSE ContinuingNode(after))),
               !.caret = s.caret + Len(data)]

\* The browser deletes the character before the caret; when it was the first
\* of its text node, the next character of that node becomes the first.
BrowserDelete(s) ==
  LET after == SubSeq(s.doc, s.caret + 1, Len(s.doc))
      wasFirst == s.caret = 1 \/ s.doc[s.caret].k = "t"
      continues == after # <<>> /\ after[1].k = "c"
  IN [s EXCEPT !.doc = Canon(SubSeq(s.doc, 1, s.caret - 1)
                               \o (IF wasFirst /\ continues THEN StartingNode(after)
                                    ELSE after)),
               !.caret = s.caret - 1]

\* 's-' + uuidv4(): an id no element of the surface and no callback of the
\* running step carries (the least such number).
IdsInUse(s) == {s.doc[i].id : i \in 1..Len(s.doc)} \cup {s.out[i].id : i \in 1..Len(s.out)}
uuidv4(s) == CHOOSE n \in 1..(Cardinality(IdsInUse(s)) + 1) :
               n \notin IdsInUse(s) /\ \A m \in 1..(n - 1) : m \in IdsInUse(s)

\* showSuggestionAtCaret without the staleness check
displayFetchedIgnoresStaleness(s, textUptilCaret, suggestionText, latency) ==
  IF ~insertNodeAtCaretOk(s) THEN s
  ELSE Emit(insertNodeAtCaret(s, <<SuggestionItem(uuidv4(s), suggestionText)>>, TRUE),
            ShownEv(uuidv4(s), suggestionText, textUptilCaret, latency))

\* showSuggestionAtCaret reporting the suggestion whether or not it went in
displayFetchedUnchecked(s, textUptilCaret, suggestionText, latency) ==
  IF textUptilCaret # getTextUptilCaretInElement(s) THEN s
  ELSE Emit(IF insertNodeAtCaretOk(s)
            THEN insertNodeAtCaret(s, <<SuggestionItem(uuidv4(s), suggestionText)>>, TRUE)
            ELSE s,
            ShownEv(uuidv4(s), suggestionText, textUptilCaret, latency))

\* showSuggestionAtCaret from `const timeAfter` on: staleness check, insert
\* the span, report it.
displayFetched(s, textUptilCaret, suggestionText, latency) ==
  IF textUptilCaret # getTextUptilCaretInElement(s) THEN s
  ELSE IF ~insertNodeAtCaretOk(s) THEN s
  ELSE Emit(insertNodeAtCaret(s, <<SuggestionItem(uuidv4(s), suggestionText)>>, TRUE),
            ShownEv(uuidv4(s), suggestionText, textUptilCaret, latency))

\* showSuggestionAtCaret up to the await (or to the end on a cache hit).
\* fn is "provider" for the getSuggestion prop and "remainder" for the
\* closure () => remainingSuggestion of handleInput; elapsed is what the clock
\* advances between the two Date.now() readings when the cache answers.
showSuggestionAtCaret(s, fn, remainingSuggestion, elapsed) ==
  LET s1 == removeSuggestionIfDisplayed(s, SYSTEM)
      textUptilCaret == getTextUptilCaretInElement(s1)
      suggestionText == CacheGet(s1.suggestionCache, textUptilCaret)
      s2 == [s1 EXCEPT !.suggestionCache = CacheTouch(s1.suggestionCache, textUptilCaret)]
      \* abortController.current = new AbortController(): the signals of the
      \* calls still in flight no longer belong to the current controller
      older == [i \in 1..Len(s2.pending) |-> [s2.pending[i] EXCEPT !.current = FALSE]]
      s3 == [s2 EXCEPT !.abortController = [aborted |-> FALSE], !.pending = older]
      call == [key |-> textUptilCaret, aborted |-> FALSE, current |-> TRUE,
               caretMoved |-> FALSE, superseded |-> FALSE]
  IN IF suggestionText # <<>>
     THEN displayFetched(s2, textUptilCaret, suggestionText, elapsed)
     ELSE IF fn = "provider"
     THEN Emit([s3 EXCEPT !.pending = Append(older, call)], ProviderEv(textUptilCaret))
     ELSE [s3 EXCEPT !.microtask = <<[key |-> textUptilCaret, rem |-> remainingSuggestion]>>]

\* showSuggestionAtCaret without `if (!suggestionText) return`
resumeShowSuggestionNoEmptyCheck(s, textUptilCaret, suggestionText, latency) ==
  displayFetched([s EXCEPT !.suggestionCache =
                             CacheSet(s.suggestionCache, textUptilCaret, suggestionText)],
                 textUptilCaret, suggestionText, latency)

\* showSuggestionAtCaret checking staleness before it writes the cache
resumeShowSuggestionStaleFirst(s, textUptilCaret, suggestionText, latency) ==
  IF suggestionText = <<>> THEN s
  ELSE IF textUptilCaret # getTextUptilCaretInElement(s) THEN s
  ELSE displayFetched([s EXCEPT !.suggestionCache =
                                  CacheSet(s.suggestionCache, textUptilCaret, suggestionText)],
                      textUptilCaret, suggestionText, latency)

\* showSuggestionAtCaret after its await settled with suggestionText
resumeShowSuggestion(s, textUptilCaret, suggestionText, latency) ==
  IF suggestionText = <<>> THEN s
  ELSE displayFetched([s EXCEPT !.suggestionCache =
                                  CacheSet(s.suggestionCache, textUptilCaret, suggestionText)],
                      textUptilCaret, suggestionText, latency)

clearTimerAndAbortFetch(s) ==
  [s EXCEPT !.timer = FALSE,
            !.movedWhileArmed = FALSE,
            !.abortController = [aborted |-> TRUE],
            !.pending = [i \in 1..Len(s.pending) |->
                           IF s.pending[i].current
                           THEN [s.pending[i] EXCEPT !.aborted = TRUE]
                           ELSE s.pending[i]]]

\* justTyped is InputEvent.data: <<>> for null, undefined and ""; elapsed is
\* passed on to showSuggestionAtCaret
handleInput(s, justTyped, elapsed) ==
  IF s.disableAutocomplete THEN Emit(s, ContentEv(s))
  ELSE IF /\ isSuggestionDisplayed(s.doc)
          /\ justTyped # <<>>
          /\ StartsWith(getCurrentSuggestionElement(s.doc).text, justTyped)
  THEN LET suggestionText == getCurrentSuggestionElement(s.doc).text
           s1 == removeSuggestionIfDisplayed(s, IMPLICIT)
           s2 == Emit(s1, ContentEv(s1))
           remainingSuggestion == Substring(suggestionText, Len(justTyped))
       IN IF remainingSuggestion # <<>>
          THEN [showSuggestionAtCaret(s2, "remainder", remainingSuggestion, elapsed)
                  EXCEPT !.disableSelectionEvent = TRUE]
          ELSE s2
  ELSE LET s1 == removeSuggestionIfDisplayed(s, IMPLICIT)
       IN Emit(s1, ContentEv(s1))

\* handleKeyDown reporting the accepted suggestion as rejected too
handleKeyDownRejectsOnAccept(s, key) ==
  IF s.disableAutocomplete THEN s
  ELSE IF key = "Escape" THEN NoteSuperseded(removeSuggestionIfDisplayed(s, EXPLICIT))
  ELSE IF key = "Tab"
  THEN IF ~isSuggestionDisplayed(s.doc) THEN s
       ELSE LET suggestion == getCurrentSuggestionElement(s.doc)
                s1 == removeSuggestionIfDisplayed(s, IMPLICIT)
                textNode == [i \in 1..Len(suggestion.text) |-> CharItem(suggestion.text[i])]
                s2 == insertNodeAtCaret(s1, textNode, FALSE)
                s3 == Emit(s2, AcceptedEv(suggestion.id))
            IN IF ~insertNodeAtCaretOk(s1) THEN s1
               ELSE handleInput(s3, <<>>, 0)
  ELSE s

\* handleKeyDown without the dispatched 'input' event
handleKeyDownNoInputEvent(s, key) ==
  IF s.disableAutocomplete THEN s
  ELSE IF key = "Escape" THEN NoteSuperseded(removeSuggestionIfDisplayed(s, EXPLICIT))
  ELSE IF key = "Tab"
  THEN IF ~isSuggestionDisplayed(s.doc) THEN s
       ELSE LET suggestion == getCurrentSuggestionElement(s.doc)
                s1 == removeSuggestionIfDisplayed(s, SYSTEM)
                textNode == [i \in 1..Len(suggestion.text) |-> CharItem(suggestion.text[i])]
                s2 == insertNodeAtCaret(s1, textNode, FALSE)
            IN IF ~insertNodeAtCaretOk(s1) THEN s1
               ELSE Emit(s2, AcceptedEv(suggestion.id))
  ELSE s

handleKeyDown(s, key) ==
  IF s.disableAutocomplete THEN s
  ELSE IF key = "Escape" THEN NoteSuperseded(removeSuggestionIfDisplayed(s, EXPLICIT))
  ELSE IF key = "Tab"
  THEN IF ~isSuggestionDisplayed(s.doc) THEN s
       ELSE LET suggestion == getCurrentSuggestionElement(s.doc)
                s1 == removeSuggestionIfDisplayed(s, SYSTEM)
                textNode == [i \in 1..Len(suggestion.text) |-> CharItem(suggestion.text[i])]
                s2 == insertNodeAtCaret(s1, textNode, FALSE)
                s3 == Emit(s2, AcceptedEv(suggestion.id))
            IN IF ~insertNodeAtCaretOk(s1) THEN s1
               ELSE handleInput(s3, <<>>, 0)   \* the dispatched 'input' event (no data)
  ELSE s

\* anchor is the anchor of the selection once the suggestion is removed
handleSelection(s, anchor) ==
  IF s.disableAutocomplete THEN s
  ELSE IF s.disableSelectionEvent THEN [s EXCEPT !.disableSelectionEvent = FALSE]
  ELSE LET s1 == removeSuggestionIfDisplayed(s, IMPLICIT)
           s2 == NoteCaretMoved(clearTimerAndAbortFetch(s1))
       IN IF s2.sel # "caret" THEN s2
          ELSE IF isCaretAtLineEnd(anchor) THEN NoteSuperseded([s2 EXCEPT !.timer = TRUE])
          ELSE s2

\* handleBlur without clearTimerAndAbortFetch
handleBlurKeepsTimer(s) ==
  NoteSuperseded(removeSuggestionIfDisplayed(s, IMPLICIT))

handleBlur(s) ==
  NoteSuperseded(clearTimerAndAbortFetch(removeSuggestionIfDisplayed(s, IMPLICIT)))

\* ------------------------------------------------------ the state machine
InitEngine ==
  /\ doc = <<>>
  /\ caret = 0
  /\ sel = "caret"
  /\ disableAutocomplete = FALSE
  /\ timer = FALSE
  /\ disableSelectionEvent = FALSE
  /\ movedWhileArmed = FALSE
  /\ abortController = [aborted |-> FALSE]
  /\ pending = <<>>
  /\ microtask = <<>>
  /\ suggestionCache = <<>>
  /\ out = <<>>

\* The component as mounted, its surface one line
Init ==
  /\ InitEngine
  /\ callsAllowed = MaxPending
  /\ content = NoContent
  /\ extracted = <<>>

\* The continuation of `await getSuggestion()` for the synchronous closure of
\* handleInput is a microtask: it runs before any other event or callback.
MicrotaskQueued(s) == s.microtask # <<>>

\* The bounds of the model, imposed on the state a step leads to.
WithinBounds(s) ==
  /\ CharCount(s.doc) <= MaxLen
  /\ Len(s.pending) <= callsAllowed

Step(s) == WithinBounds(s) /\ Becomes(s)

\* The user inserts the text data at the caret (a key, or several characters
\* at once): the browser inserts it and dispatches the input event.
InputTyped(data, elapsed) ==
  /\ ~MicrotaskQueued(Cur)
  /\ sel = "caret"
  /\ Step(handleInput(BrowserInsert(Begin(Trigger("input", data, DisplayedText, "")), data),
                      data, elapsed))

\* The user deletes the character before the caret (InputEvent.data is null).
InputDeleted ==
  /\ ~MicrotaskQueued(Cur)
  /\ sel = "caret"
  /\ caret > 0
  /\ IsChar(doc[caret])
  /\ Step(handleInput(BrowserDelete(Begin(Trigger("input", <<>>, DisplayedText, ""))), <<>>, 0))

KeyDown(key) ==
  /\ ~MicrotaskQueued(Cur)
  /\ Step(handleKeyDown(Begin(Trigger("keydown", <<>>, DisplayedText, key)), key))

\* The selection becomes a caret before item c + 1, or a range, and the
\* select event is dispatched.
Moved(kind, c) ==
  [Begin(Trigger("select", <<>>, DisplayedText, ""))
     EXCEPT !.sel = kind, !.caret = IF kind = "caret" THEN c ELSE caret,
            !.movedWhileArmed = @ \/ (timer /\ (kind # sel \/ (kind = "caret" /\ c # caret)))]
\* The anchors the selection can have when handleSelection reads it (one
\* stands for all where the handler returns before reading it)
SelectionAnchors(kind, c) ==
  IF kind # "caret" \/ disableAutocomplete \/ disableSelectionEvent
  THEN {TextboxAnchor}
  ELSE LET s1 == removeSuggestionIfDisplayed(Moved(kind, c), SYSTEM)
       IN AnchorsAt(s1.doc, s1.caret)
Selection(kind, c, anchor) ==
  /\ ~MicrotaskQueued(Cur)
  /\ Step(handleSelection(Moved(kind, c), anchor))

Blur ==
  /\ ~MicrotaskQueued(Cur)
  /\ Step(handleBlur(Begin(Trigger("blur", <<>>, DisplayedText, ""))))

\* The parent renders the component with another disableAutocomplete.
SetDisableAutocomplete(b) ==
  /\ ~MicrotaskQueued(Cur)
  /\ b # disableAutocomplete
  /\ Step(IF b THEN NoteSuperseded([Begin(Trigger("render", <<>>, DisplayedText, "")) EXCEPT !.disableAutocomplete = b])
          ELSE [Begin(Trigger("render", <<>>, DisplayedText, "")) EXCEPT !.disableAutocomplete = b])

\* The debounce timeout expires: async () => await showSuggestionAtCaret(getSuggestion)
TimerExpires(elapsed) ==
  /\ ~MicrotaskQueued(Cur)
  /\ timer
  /\ Step(showSuggestionAtCaret([Begin(Trigger("timeout", <<>>, DisplayedText, ""))
                                   EXCEPT !.timer = FALSE, !.movedWhileArmed = FALSE],
                                "provider", <<>>, elapsed))

History(call) ==
  IF call.caretMoved /\ call.superseded THEN "caretMoved,superseded"
  ELSE IF call.caretMoved THEN "caretMoved"
  ELSE IF call.superseded THEN "superseded" ELSE ""

\* The promise of provider call i resolves with text, whether or not its
\* signal was aborted.
ProviderResolves(i, text, latency) ==
  /\ ~MicrotaskQueued(Cur)
  /\ Step(resumeShowSuggestion([Begin(Trigger("settled", text, pending[i].key, History(pending[i])))
                                  EXCEPT !.pending = RemoveAt(pending, i)],
                               pending[i].key, text, latency))

\* The provider call i throws or its promise rejects (as fetch does once its
\* signal is aborted): nothing catches it in showSuggestionAtCaret or in the
\* timer callback.
ProviderRejects(i) ==
  /\ ~MicrotaskQueued(Cur)
  /\ Step(Emit([Begin(Trigger("threw", <<>>, pending[i].key, History(pending[i])))
                  EXCEPT !.pending = RemoveAt(pending, i)], UnhandledEv))

\* The microtask continuing showSuggestionAtCaret(() => remainingSuggestion)
RunMicrotask(latency) ==
  /\ MicrotaskQueued(Cur)
  /\ Step(resumeShowSuggestion([Begin(Trigger("microtask", microtask[1].rem, microtask[1].key, ""))
                                  EXCEPT !.microtask = <<>>],
                               microtask[1].key, microtask[1].rem, latency))

Next ==
  \/ \E data \in TypedData : \E elapsed \in 0..MaxLatency : InputTyped(data, elapsed)
  \/ InputDeleted
  \/ \E key \in {"Escape", "Tab"} : KeyDown(key)
  \/ \E kind \in SelKinds :
       \E c \in (IF kind = "caret" THEN 0..Len(doc) ELSE {caret}) :
         \E anchor \in SelectionAnchors(kind, c) : Selection(kind, c, anchor)
  \/ Blur
  \/ \E b \in BOOLEAN : SetDisableAutocomplete(b)
  \/ \E elapsed \in 0..MaxLatency : TimerExpires(elapsed)
  \/ \E i \in 1..Len(pending) : \E text \in Results : \E latency \in 0..MaxLatency :
       ProviderResolves(i, text, latency)
  \/ \E i \in 1..Len(pending) : ProviderRejects(i)
  \/ \E latency \in 0..MaxLatency : RunMicrotask(latency)

Spec == Init /\ [][Next]_vars

\* ---- A slower provider, with one more call in flight, and a user who only
\* moves the caret and types
InitTwoCalls ==
  /\ InitEngine
  /\ callsAllowed = MaxPending + 1
  /\ content = NoContent
  /\ extracted = <<>>

NextTwoCalls ==
  \/ \E data \in TypedData : \E elapsed \in 0..MaxLatency : InputTyped(data, elapsed)
  \/ \E c \in 0..Len(doc) : \E anchor \in SelectionAnchors("caret", c) : Selection("caret", c, anchor)
  \/ \E elapsed \in 0..MaxLatency : TimerExpires(elapsed)
  \/ \E i \in 1..Len(pending) : \E text \in Results : \E latency \in 0..MaxLatency :
       ProviderResolves(i, text, latency)
  \/ \E latency \in 0..MaxLatency : RunMicrotask(latency)

SpecTwoCalls == InitTwoCalls /\ [][NextTwoCalls]_vars

\* ---- getTextUptilCaretInElement alone, on any surface of up to MaxLines lines
InitExtract ==
  /\ InitEngine
  /\ callsAllowed = MaxPending
  /\ content \in Contents
  /\ extracted = <<>>

Extract ==
  /\ extracted = <<>>
  /\ extracted' = <<getTextUptilCaret(content)>>
  /\ UNCHANGED <<doc, caret, sel, disableAutocomplete, timer, disableSelectionEvent,
                 movedWhileArmed, abortController, pending, microtask, suggestionCache,
                 out, callsAllowed, content>>

NextExtract == Extract

SpecExtract == InitExtract /\ [][NextExtract]_vars

\* ----------------------------------------------------------- the claims
OutOf(log, type) == SelectSeq(log, LAMBDA e : e.type = type)
Shown == OutOf(out, "shown")
Accepted == OutOf(out, "accepted")
Rejected == OutOf(out, "rejected")
ProviderCalls == OutOf(out, "provider")
Handled(type) == out # <<>> /\ out[1].type = type
CaretMovedSince(e) == e.reason \in {"caretMoved", "caretMoved,superseded"}
SupersededSince(e) == e.reason \in {"superseded", "caretMoved,superseded"}

\* C1: after any sequence of surface events, timer expiries and provider
\* resolutions the surface holds at most one suggestion marker.
C1_AtMostOneSuggestion == Len(SuggestionElements(doc)) <= 1

\* C2: when a provider call resolves with non-empty text after a select event
\* was handled since the call was issued, no marker is inserted and
\* onSuggestionShown is not called, whatever the text up to the caret is now.
C2_CaretMoveDiscardsResult ==
  (Handled("settled") /\ out[1].text # <<>> /\ CaretMovedSince(out[1]))
    => (Shown = <<>> /\ Len(SuggestionElements(doc)) = out[1].marks)

\* C3: when a provider call resolves after a new debounce cycle was started,
\* Escape was handled, the surface was blurred or disableAutocomplete became
\* true since the call was issued, its result is discarded: no marker is
\* inserted.
C3_SupersededResultDiscarded ==
  (Handled("settled") /\ out[1].text # <<>> /\ SupersededSince(out[1]))
    => (Shown = <<>> /\ Len(SuggestionElements(doc)) = out[1].marks)

\* The state in which showSuggestionAtCaret looks the cache up when the timer
\* expires, and when handleInput re-shows the remainder after data was typed.
AtShowFromTimer == removeSuggestionIfDisplayed(Cur, SYSTEM)
AtShowFromInput(data) ==
  removeSuggestionIfDisplayed(BrowserInsert(Cur, data), SYSTEM)
PartialAcceptance(data) ==
  /\ ~disableAutocomplete
  /\ isSuggestionDisplayed(doc)
  /\ data # <<>>
  /\ StartsWith(DisplayedText, data)
Remainder(data) == Substring(DisplayedText, Len(data))
CachedAt(s) ==
  \E i \in 1..Len(s.suggestionCache) :
    s.suggestionCache[i].key = getTextUptilCaretInElement(s)
CachedTextAt(s) ==
  LET i == CHOOSE j \in 1..Len(s.suggestionCache) :
             s.suggestionCache[j].key = getTextUptilCaretInElement(s)
  IN s.suggestionCache[i].val
TimerStep == out' # <<>> /\ out'[1].type = "timeout"
InputStep(data) == out' # <<>> /\ out'[1].type = "input" /\ out'[1].text = data /\ sel = "caret"

NoFetchStarted ==
  /\ ProviderCalls' = <<>>
  /\ pending' = pending
  /\ microtask' = <<>>
  /\ abortController' = abortController
CachedTextDisplayed(s) ==
  /\ Len(Shown') = 1
  /\ Shown'[1].text = CachedTextAt(s)
  /\ Shown'[1].key = getTextUptilCaretInElement(s)
  /\ Shown'[1].lat = 0
  /\ SuggestionElements(doc') = <<SuggestionItem(Shown'[1].id, CachedTextAt(s))>>
  /\ doc'[caret' + 1] = SuggestionItem(Shown'[1].id, CachedTextAt(s))

\* C4: when showSuggestionAtCaret runs with the current text up to
\* the caret in the cache, the provider is not invoked, no abort controller or
\* pending fetch is created, and the cached text is displayed in that step
\* with latency 0.
C4_CacheHitAlwaysDisplays ==
  [][/\ (TimerStep /\ CachedAt(AtShowFromTimer))
          => (NoFetchStarted /\ CachedTextDisplayed(AtShowFromTimer))
     /\ \A data \in TypedData :
          (InputStep(data) /\ PartialAcceptance(data) /\ Remainder(data) # <<>>
             /\ CachedAt(AtShowFromInput(data)))
          => (NoFetchStarted /\ CachedTextDisplayed(AtShowFromInput(data)))]_vars

\* C5 (as stated): the provider is invoked with a leading text at most once,
\* every later request for it being served from the cache; so the step after
\* a call for a text has settled never invokes the provider with that text.
C5_ProviderCalledOncePerText ==
  [][\A i \in 1..Len(out') :
       (out'[i].type = "provider" /\ out # <<>> /\ out[1].type \in {"settled", "threw"})
         => out'[i].key # out[1].key]_vars

\* C5 (amended): the provider is never invoked with a leading text the cache
\* holds an entry for; it is invoked again with a text whose earlier call is
\* still in flight, resolved with the empty string or threw.
C5_NoProviderCallWhileCached ==
  \A i \in 1..Len(ProviderCalls) : ~CacheHas(suggestionCache, ProviderCalls[i].key)

\* C5 witness: the timer expired at a text the cache holds, and the text is
\* served from the cache without a provider call
C5_Witness ==
  /\ Handled("timeout")
  /\ ProviderCalls = <<>>
  /\ Len(Shown) = 1
  /\ CacheHas(suggestionCache, Shown[1].key)

\* The step handled the input event of typing data, Tab, or Escape.
KeyStep(key) == out' # <<>> /\ out'[1].type = "keydown" /\ out'[1].reason = key
MicrotaskStep == out' # <<>> /\ out'[1].type = "microtask"
MarkerIds(d) == {d[i].id : i \in {j \in 1..Len(d) : IsMarker(d[j])}}
\* data is a prefix of the text of the suggestion displayed
TypedPrefix(data) ==
  isSuggestionDisplayed(doc) /\ data # <<>> /\ StartsWith(DisplayedText, data)

\* C6: when a suggestion is displayed and the typed data is a prefix of its
\* text, handleInput removes the marker and onSuggestionRejected is not called.
C6_PartialAcceptanceNotRejected ==
  [][\A data \in TypedData :
       (InputStep(data) /\ TypedPrefix(data))
         => (out'[1].id \notin MarkerIds(doc') /\ Rejected' = <<>>)]_vars

\* C7: in the partial-acceptance path with a non-empty remainder, the
\* suggestion displayed next is exactly the remainder; the input step arms no
\* timer and calls no provider, and neither it nor the continuation that
\* displays the remainder changes the cache or displays anything else.
C7_RemainderShownWithoutCache ==
  [][/\ \A data \in TypedData :
          (InputStep(data) /\ TypedPrefix(data) /\ Remainder(data) # <<>>)
            => /\ ProviderCalls' = <<>>
               /\ (timer' => timer)
               /\ suggestionCache' = suggestionCache
               /\ \A i \in 1..Len(Shown') : Shown'[i].text = Remainder(data)
     /\ MicrotaskStep
          => /\ suggestionCache' = suggestionCache
             /\ \A i \in 1..Len(Shown') : Shown'[i].text = out'[1].text]_vars

\* C8: when the typed data equals the whole text of the suggestion displayed,
\* after handleInput no marker is displayed, onSuggestionShown is not called,
\* and the handler starts no timer and no fetch.
C8_Exhaustion ==
  [][\A data \in TypedData :
       (InputStep(data) /\ isSuggestionDisplayed(doc) /\ data = DisplayedText)
         => /\ SuggestionElements(doc') = <<>>
            /\ Shown' = <<>>
            /\ (timer' => timer)
            /\ ProviderCalls' = <<>>
            /\ pending' = pending
            /\ microtask' = <<>>]_vars

\* The surface after text is committed as plain characters at the caret and
\* every marker is removed
CommittedAtCaret(text) ==
  LET before == SelectSeq(SubSeq(doc, 1, caret), IsChar)
      after == SelectSeq(SubSeq(doc, caret + 1, Len(doc)), IsChar)
  IN before \o [i \in 1..Len(text) |-> CharItem(text[i])] \o after

\* C9: when Tab is pressed with a suggestion of text T displayed, T is
\* committed as plain text at the caret, the marker is removed,
\* onSuggestionAccepted is called exactly once with the suggestion's id and
\* onSuggestionRejected is not called; with nothing displayed Tab changes no
\* state and issues no notification.
C9_Accept ==
  [][KeyStep("Tab")
       => IF isSuggestionDisplayed(doc)
          THEN /\ TextOf(doc') = TextOf(CommittedAtCaret(DisplayedText))
               /\ SuggestionElements(doc') = <<>>
               /\ Accepted' = <<AcceptedEv(out'[1].id)>>
               /\ Rejected' = <<>>
          ELSE /\ UNCHANGED <<doc, caret, sel, disableAutocomplete, timer,
                              disableSelectionEvent, abortController, pending,
                              microtask, suggestionCache>>
               /\ Len(out') = 1]_vars

\* C10: when Escape is pressed with a suggestion displayed, the marker is
\* removed and onSuggestionRejected is called exactly once, with the
\* suggestion's id and reason explicit; with nothing displayed Escape removes
\* nothing and issues no notification.
C10_ExplicitReject ==
  [][KeyStep("Escape")
       => IF isSuggestionDisplayed(doc)
          THEN /\ SuggestionElements(doc') = <<>>
               /\ Rejected' = <<RejectedEv(out'[1].id, EXPLICIT)>>
          ELSE /\ doc' = doc
               /\ Len(out') = 1]_vars

\* C11: the provider is called only in a step of the debounce timeout, and
\* the timeout that calls it was set by the latest change of the selection:
\* no provider call happens before a full debounce interval has passed since
\* the most recent caret movement.
C11_Debounce ==
  [][ProviderCalls' # <<>> => (TimerStep /\ ~movedWhileArmed)]_vars

\* Text follows the caret on its line
CaretMidLine == sel = "caret" /\ \E i \in (caret + 1)..Len(doc) : IsChar(doc[i])

\* C12: the provider is never called while the caret is mid-line, that is
\* while text follows the caret on the same line, in the caret's own text
\* node or in a following sibling.
C12_LineEndGating == ProviderCalls # <<>> => ~CaretMidLine

\* The step is a render that sets disableAutocomplete to b
RenderStep(b) == out' # <<>> /\ out'[1].type = "render" /\ disableAutocomplete' = b

\* C13: when disableAutocomplete is switched to true while a suggestion is
\* displayed, the marker is removed and onSuggestionRejected is called for
\* it with reason implicit; switching disableAutocomplete back to false
\* displays no suggestion.
C13_DisableIdempotence ==
  [][/\ (RenderStep(TRUE) /\ isSuggestionDisplayed(doc))
          => /\ SuggestionElements(doc') = <<>>
             /\ Rejected' = <<RejectedEv(out'[1].id, IMPLICIT)>>
     /\ RenderStep(FALSE) => MarkerIds(doc') \subseteq MarkerIds(doc)]_vars

\* C14: while disableAutocomplete is true no debounce timer is armed, the
\* provider is not called and no suggestion marker is inserted.
C14_DisableTearsDown ==
  disableAutocomplete
    => /\ ~timer
       /\ ProviderCalls = <<>>
       /\ Shown = <<>>

\* The step is the provider throwing or its promise rejecting
ThrewStep == out' # <<>> /\ out'[1].type = "threw"

\* C15: when the provider throws or its promise rejects, no marker is
\* inserted, the cache is unchanged, no notification is issued and no
\* rejected promise escapes showSuggestionAtCaret or the timer callback: the
\* step does nothing but end the call.
C15_ProviderErrorCaught ==
  [][ThrewStep => (doc' = doc /\ suggestionCache' = suggestionCache /\ Len(out') = 1)]_vars

\* The step is the provider resolving with the empty string
SettledEmptyStep == out' # <<>> /\ out'[1].type = "settled" /\ out'[1].text = <<>>

\* C16: when the provider resolves with the empty string no marker is
\* inserted, onSuggestionShown is not called and the cache is not written;
\* no entry of the cache ever holds the empty string.
C16_EmptyResult ==
  [][/\ SettledEmptyStep
          => (doc' = doc /\ Shown' = <<>> /\ suggestionCache' = suggestionCache)
     /\ \A i \in 1..Len(suggestionCache') : suggestionCache'[i].val # <<>>]_vars

\* The provider has resolved with the empty string for the text that is
\* still the leading text of a collapsed caret, the result not stale
C16_Witness ==
  /\ Handled("settled")
  /\ out[1].text = <<>>
  /\ out[1].reason = ""
  /\ sel = "caret"
  /\ out[1].key = getTextUptilCaretInElement(Cur)
  /\ out[1].key # <<>>

\* C17: when insertNodeAtCaret returns false (no collapsed selection in the
\* textbox) nothing is reported: showSuggestionAtCaret inserts no marker and
\* does not call onSuggestionShown, and Tab calls neither
\* onSuggestionAccepted nor onContentChange nor any other callback.
C17_InsertionFailure ==
  [][sel' # "caret"
       => /\ Shown' = <<>>
          /\ Accepted' = <<>>
          /\ Len(SuggestionElements(doc')) <= Len(SuggestionElements(doc))
          /\ KeyStep("Tab") => Len(out') = 1]_vars

\* Tab was pressed with autocomplete enabled and a suggestion displayed while
\* the selection was not a caret
C17_Witness ==
  /\ Handled("keydown")
  /\ out[1].reason = "Tab"
  /\ out[1].marks > 0
  /\ ~disableAutocomplete
  /\ sel # "caret"

\* A result that is not stale arrived while the selection was not a caret
C17_ShowWitness ==
  /\ Handled("settled")
  /\ out[1].text # <<>>
  /\ out[1].key = <<>>
  /\ sel # "caret"

ContentChanges == OutOf(out, "content")

\* C18: whenever onContentChange is called the surface holds no suggestion
\* marker, so the content passed excludes the suggestion, on every path of
\* handleInput.
C18_ContentExcludesSuggestion ==
  \A i \in 1..Len(ContentChanges) : ContentChanges[i].marks = 0

\* C19: onSuggestionRejected is only ever called with reason implicit or
\* explicit; the step of the debounce timeout, which starts
\* showSuggestionAtCaret, and the step of Tab, which accepts, never call it.
C19_NoSystemRejection ==
  [][/\ \A i \in 1..Len(Rejected') : Rejected'[i].reason \in {IMPLICIT, EXPLICIT}
     /\ (TimerStep \/ KeyStep("Tab")) => Rejected' = <<>>]_vars

\* Tab has accepted a displayed suggestion, removing its marker
C19_Witness ==
  /\ Handled("keydown")
  /\ out[1].reason = "Tab"
  /\ out[1].marks > 0
  /\ Accepted # <<>>
  /\ SuggestionElements(doc) = <<>>

\* The debounce timeout expired while a suggestion was displayed, and
\* showSuggestionAtCaret removed it
C19_ShowWitness ==
  /\ Handled("timeout")
  /\ out[1].marks > 0
  /\ out[1].id \notin MarkerIds(doc)

\* The user can pause here and expect a suggestion: autocomplete enabled, a
\* collapsed caret at the end of its line, nothing displayed yet
PausedAtLineEnd ==
  /\ ~disableAutocomplete
  /\ sel = "caret"
  /\ ~CaretMidLine
  /\ ~isSuggestionDisplayed(doc)
  /\ microtask = <<>>
\* What can still display a suggestion while no surface event occurs: the
\* armed timeout, or a provider call in flight for the current leading text
FetchUnderWay ==
  timer \/ \E i \in 1..Len(pending) : pending[i].key = getTextUptilCaretInElement(Cur)
\* The step is Escape rejecting a displayed suggestion
RejectStep == KeyStep("Escape") /\ Rejected' # <<>>
\* The step is a select event that handleSelection does not ignore
HandledSelectStep ==
  out' # <<>> /\ out'[1].type = "select" /\ ~disableAutocomplete /\ ~disableSelectionEvent

\* C20: when the user pauses with autocomplete enabled and a collapsed caret
\* at the end of a line, a suggestion is eventually displayed provided the
\* provider answers; as only the timeout and the provider's answer act during
\* a pause, right after a reject or a caret move that leaves such a state the
\* timeout is armed or a call for the leading text is in flight.
C20_PauseLeadsToSuggestion ==
  [][((RejectStep \/ HandledSelectStep) /\ PausedAtLineEnd') => FetchUnderWay']_vars

\* C21: when showSuggestionAtCaret runs while the text up to the caret
\* cannot be resolved (the selection is not a caret), the provider is not
\* called, the cache is neither read nor written and no marker is inserted.
C21_ExtractionFailure ==
  [][(TimerStep /\ sel # "caret")
       => /\ ProviderCalls' = <<>>
          /\ suggestionCache' = suggestionCache
          /\ Shown' = <<>>
          /\ SuggestionElements(doc') = <<>>]_vars

BlurStep == out' # <<>> /\ out'[1].type = "blur"

\* C22: when the surface loses focus every displayed suggestion is removed
\* and reported through onSuggestionRejected with reason implicit, the
\* debounce timer is cleared and the current abort controller is aborted.
C22_Blur ==
  [][BlurStep
       => /\ SuggestionElements(doc') = <<>>
          /\ Rejected' = [i \in 1..Len(SuggestionElements(doc)) |->
                            RejectedEv(SuggestionElements(doc)[i].id, IMPLICIT)]
          /\ ~timer'
          /\ abortController'.aborted
          /\ \A i \in 1..Len(pending') : pending'[i].current => pending'[i].aborted]_vars

\* The surface was blurred with a suggestion displayed and a provider call
\* in flight under the current controller
C22_Witness ==
  /\ Handled("blur")
  /\ out[1].marks > 0
  /\ Rejected # <<>>
  /\ \E i \in 1..Len(pending) : pending[i].current

\* The lines joined by one newline each, non-breaking spaces as spaces
RECURSIVE JoinLines(_)
JoinLines(lines) ==
  IF lines = <<>> THEN <<>>
  ELSE IF Len(lines) = 1 THEN ReplaceNbsp(lines[1])
  ELSE ReplaceNbsp(lines[1]) \o <<"\n">> \o JoinLines(Tail(lines))

\* C23: getTextUptilCaretInElement returns the text from the start of the
\* surface up to the caret, inline formatting flattened, every line break
\* (block boundary or <br>, empty lines included) as exactly one newline and
\* every non-breaking space as a plain space.
C23_TextUptilCaret ==
  extracted # <<>> => extracted[1] = JoinLines(content.lines)

\* The step is a select event that starts a new debounce cycle
NewCycleStep == out' # <<>> /\ out'[1].type = "select" /\ timer'

\* C24: while a provider call is pending, a new debounce cycle, Escape, blur
\* and Tab each abort the signal that was passed to that call.
C24_CancelSignals ==
  [][(pending # <<>> /\ (NewCycleStep \/ KeyStep("Escape") \/ BlurStep \/ KeyStep("Tab")))
       => \A i \in 1..Len(pending') : pending'[i].aborted]_vars

\* The provider calls in flight whose signal is not aborted
Unaborted(p) == {i \in 1..Len(p) : ~p[i].aborted}

\* C25: at most one provider call is outstanding with a signal that is not
\* aborted: whenever showSuggestionAtCaret replaces abortController.current,
\* every call in flight under the controller it replaces is already aborted.
C25_OneLiveCall ==
  [][/\ \A i \in 1..Len(pending) :
          (i <= Len(pending') /\ pending'[i].key = pending[i].key
             /\ pending[i].current /\ ~pending'[i].current) => pending[i].aborted
     /\ Cardinality(Unaborted(pending')) <= 1]_vars

\* The step is an input event, or a select event
AnyInputStep == out' # <<>> /\ out'[1].type = "input"
AnySelectStep == out' # <<>> /\ out'[1].type = "select"

\* C26: every select event and every input event cancels the armed debounce
\* timer: no timer is armed after an input event, nor after a select event
\* that arrives while the suppression flag is set.
C26_TimerCancelled ==
  [][/\ AnyInputStep => ~timer'
     /\ (AnySelectStep /\ disableSelectionEvent) => ~timer']_vars

\* The step is the provider resolving with a text that is not empty
SettledTextStep == out' # <<>> /\ out'[1].type = "settled" /\ out'[1].text # <<>>

C28_AcceptOrder ==
  [][(KeyStep("Tab") /\ Accepted' # <<>>)
       => /\ Len(out') = 3
          /\ out'[2] = AcceptedEv(out'[1].id)
          /\ out'[3].type = "content"
          /\ out'[3].marks = 0
          /\ out'[3].text = TextOf(CommittedAtCaret(DisplayedText))
          /\ TextOf(doc') = out'[3].text
          /\ SuggestionElements(doc') = <<>>]_vars

\* Tab has accepted a suggestion displayed in the middle of a line, and
\* onContentChange was called
C28_Witness ==
  /\ Handled("keydown")
  /\ out[1].reason = "Tab"
  /\ Accepted # <<>>
  /\ ContentChanges # <<>>
  /\ caret < Len(doc)

\* C29: when Tab is pressed with a suggestion displayed and the insertion of
\* its text fails, the surface after the command is the surface before it:
\* the same marker is displayed and the content is unchanged.
C29_FailedAcceptUnchanged ==
  [][(KeyStep("Tab") /\ ~disableAutocomplete /\ isSuggestionDisplayed(doc)
        /\ ~insertNodeAtCaretOk(Cur))
       => /\ SuggestionElements(doc') = SuggestionElements(doc)
          /\ TextOf(doc') = TextOf(doc)]_vars

\* The positions in the log of a step of the calls of onSuggestionAccepted
\* and onSuggestionRejected, and of onSuggestionShown
Terminal(o) == {i \in 1..Len(o) : o[i].type \in {"accepted", "rejected"}}
ShownAt(o) == {i \in 1..Len(o) : o[i].type = "shown"}

\* C30: every onSuggestionAccepted and onSuggestionRejected call carries the
\* id of a suggestion reported shown earlier, and no id is reported accepted
\* or rejected more than once.  Step by step: every marker that appears was
\* reported shown in that step and no two markers displayed share an id (so
\* every marker displayed stands for one suggestion shown earlier); a call
\* carries the id of a marker displayed when the step began, or shown
\* earlier in the step; no two calls of a step carry the same id; and the
\* marker of the id is gone after the step, unless the id was given to a
\* suggestion shown later in the step.
C30_TerminalOnceAfterShown ==
  [][/\ MarkerIds(doc') \subseteq (MarkerIds(doc) \cup {out'[j].id : j \in ShownAt(out')})
     /\ Cardinality(MarkerIds(doc')) = Len(SuggestionElements(doc'))
     /\ \A i \in Terminal(out') :
          /\ \/ out'[i].id \in MarkerIds(doc)
             \/ \E j \in ShownAt(out') : j < i /\ out'[j].id = out'[i].id
          /\ \A k \in Terminal(out') : k # i => out'[k].id # out'[i].id
          /\ out'[i].id \in MarkerIds(doc')
               => \E j \in ShownAt(out') : j > i /\ out'[j].id = out'[i].id]_vars

\* Escape was pressed with two suggestions displayed, and both were reported
\* rejected
C30_Witness ==
  /\ Handled("keydown")
  /\ out[1].reason = "Escape"
  /\ out[1].marks = 2
  /\ Len(Rejected) = 2
  /\ Rejected[1].id # Rejected[2].id

\* C31: at every onSuggestionShown call the leadingText reported is the text
\* up to the caret, the suggestionText reported is the text of the marker
\* just inserted at the caret (under the id reported), and the cache maps
\* the leadingText to the suggestionText.
C31_ShownConsistent ==
  [][\A i \in ShownAt(out') :
       /\ i = Len(out')
       /\ out'[i].key = getTextUptilCaretInElement(Cur')
       /\ caret' < Len(doc')
       /\ doc'[caret' + 1] = SuggestionItem(out'[i].id, out'[i].text)
       /\ CacheGet(suggestionCache', out'[i].key) = out'[i].text]_vars

\* The remainder of a suggestion typed into has been shown after a non-empty
\* leading text, and the cache maps that text to the remainder
C31_Witness ==
  /\ Handled("microtask")
  /\ Len(Shown) = 1
  /\ Shown[1].key # <<>>
  /\ CacheGet(suggestionCache, Shown[1].key) = Shown[1].text
  /\ isSuggestionDisplayed(doc)

\* C32: disableSelectionEvent is set only while the remainder shown by a
\* partial acceptance is displayed (or is about to be, its insertion being
\* queued); a select event handled with autocomplete enabled and no
\* suggestion displayed is never ignored; and a select event that is ignored
\* clears the flag, so that the next one is not.
C32_SuppressionFlag ==
  [][/\ disableSelectionEvent' => (isSuggestionDisplayed(doc') \/ MicrotaskQueued(Cur'))
     /\ (AnySelectStep /\ ~disableAutocomplete /\ ~isSuggestionDisplayed(doc))
          => ~disableSelectionEvent
     /\ (AnySelectStep /\ ~disableAutocomplete /\ disableSelectionEvent)
          => ~disableSelectionEvent']_vars

====
